---- MODULE Spec2Model ----
(***************************************************************************)
(* A model of the ITEP RN scheduler (src/main.go): runScheduling fetches   *)
(* the orders of the next working day, keeps those of the configured       *)
(* location, collects their time slots, selects slots with distinct        *)
(* times-of-day and books them concurrently behind a counting gate.        *)
(*                                                                         *)
(* Strings the code compares, measures or slices (the time-of-day strings  *)
(* and the confirmation codes) are sequences of character codes: a digit   *)
(* is its value and ':' is 10, which keeps the byte order of ASCII.        *)
(* Calendar dates are day numbers; day d falls on weekday d % 7 with       *)
(* 0 = Sunday, as in Go's time.Weekday.                                    *)
(***************************************************************************)
EXTENDS Integers, Sequences, FiniteSets, TLC

\* ------------------------------------------------------------------ bounds

\* Entries of a date list returned for one order.
MaxDates == 2
\* Time strings returned for one order.
MaxTimes == 2
\* Largest configured appointment_count.
MaxCount == 3
\* Length of the slot lists handed directly to selectUniqueSlots.
MaxSlots == 3
\* Size of the slot batches handed directly to bookAppointmentsConcurrently
\* is GateCapacity + ExtraTasks at most.
ExtraTasks == 1
\* The last day the clock reaches during a run.
LastDay == 5
\* The last of the days, from day 0 on, on which getNextWorkingDay is tried.
Horizon == 13

\* ------------------------------------------------- program constants

\* semaphore := make(chan struct{}, 5)
GateCapacity == 5
\* http.StatusOK
StatusOK == 200
\* slot.Time[:5]
HoraLen == 5

\* ------------------------------------------------------------ strings

\* "09:00:00", "10:00:00", and "9:30": not zero-padded and shorter than HH:MM.
T0900 == <<0, 9, 10, 0, 0, 10, 0, 0>>
T1000 == <<1, 0, 10, 0, 0, 10, 0, 0>>
T930 == <<9, 10, 3, 0>>
TimeStrings == {T0900, T1000, T930}

EmptyString == <<>>

\* Go's < on strings: bytewise lexicographic, a proper prefix is smaller.
RECURSIVE StrLess(_, _)
StrLess(a, b) ==
    IF b = <<>> THEN FALSE
    ELSE IF a = <<>> THEN TRUE
    ELSE IF Head(a) # Head(b) THEN Head(a) < Head(b)
    ELSE StrLess(Tail(a), Tail(b))

SeqsUpTo(S, n) == UNION {[1..m -> S] : m \in 0..n}

Range(s) == {s[i] : i \in DOMAIN s}

\* -------------------------------------------------------------- dates

Saturday == 6
Sunday == 0
Weekday(d) == d % 7

\* getNextWorkingDay: tomorrow, advanced day by day past Saturday and Sunday.
RECURSIVE SkipWeekend(_)
SkipWeekend(d) ==
    IF Weekday(d) = Saturday \/ Weekday(d) = Sunday THEN SkipWeekend(d + 1) ELSE d

\* getNextWorkingDay as it would be with an if in place of the for of line 257.
getNextWorkingDayOneSkip(today) ==
    IF Weekday(today + 1) = Saturday \/ Weekday(today + 1) = Sunday
    THEN today + 2
    ELSE today + 1

getNextWorkingDay(today) == SkipWeekend(today + 1)

\* Days the run may start on: a Thursday (day 4), so that the next working day
\* is the Friday before midnight and the Monday after it.
StartDays == {4}

\* ------------------------------------------------------ configuration

\* The names of the locations the service knows; two differ only by case.
Locations == {"NATAL", "Natal", "OTHER"}
\* The ids of the orders the service knows.
OrderIds == {1, 2}

\* ------------------------------------------------------- remote data

\* An Order as far as the code reads it: its id and its location's name.
Order(id, nome) == [ID |-> id, Nome |-> nome]

\* The order lists the list-orders endpoint may answer with: orders with
\* distinct ids, in any sequence, each at any location.
OrderLists ==
    {s \in SeqsUpTo([ID : OrderIds, Nome : Locations], Cardinality(OrderIds)) :
        \A i, j \in DOMAIN s : i # j => s[i].ID # s[j].ID}

\* A reply to an HTTP call: net is FALSE when the transport failed; json tells
\* whether the body decodes into the Go value the caller asks for; body is the
\* decoded value.
HttpReply(net, status, json, body) ==
    [net |-> net, status |-> status, json |-> json, body |-> body]

\* BookingResponse{} and a decoded {"codigo_vaga": c, "agendou": a}.
BookingResponse(codigo, agendou) == [CodigoVaga |-> codigo, Agendou |-> agendou]
ZeroResponse == BookingResponse(EmptyString, 0)

TimeSlot(id, date, time) == [OrderID |-> id, Date |-> date, Time |-> time]

\* The confirmation code the service issues for a request: one per order and
\* hour, so that the codes of different slots of a batch differ.
CodigoFor(request) == <<request.IDOrdem>> \o request.Hora

\* What the booking endpoint may answer to a request, by kind.
BookingReplyKinds ==
    {"unreachable", "http500", "created", "garbage", "refused", "booked"}

BookingReply(kind, request) ==
    CASE kind = "unreachable" -> HttpReply(FALSE, 0, FALSE, ZeroResponse)
      [] kind = "http500" -> HttpReply(TRUE, 500, FALSE, ZeroResponse)
      [] kind = "created" ->
            HttpReply(TRUE, 201, TRUE, BookingResponse(CodigoFor(request), 1))
      [] kind = "garbage" -> HttpReply(TRUE, StatusOK, FALSE, ZeroResponse)
      [] kind = "refused" ->
            HttpReply(TRUE, StatusOK, TRUE, BookingResponse(CodigoFor(request), 0))
      [] kind = "booked" ->
            HttpReply(TRUE, StatusOK, TRUE, BookingResponse(CodigoFor(request), 1))

\* ------------------------------------------------------------- errors

NoError == "nil"
ErrTransport == "HTTP request failed"
ErrStatus == "HTTP error"
ErrDecode == "failed to parse response"
ErrAgendou == "booking was not successful"
ErrParseJSON == "failed to parse JSON response"

BookingResult(response, err) == [response |-> response, err |-> err]
ZeroResult == BookingResult(ZeroResponse, NoError)

\* ----------------------------------------------------- pure functions

\* collectAllTimeSlots, lines 276-282: the scan of the date list.
dateFound(dates, targetDateStr) == \E i \in DOMAIN dates : dates[i] = targetDateStr

\* The slots one order contributes, lines 295-301.
SlotsOf(id, targetDateStr, times) ==
    [i \in DOMAIN times |-> TimeSlot(id, targetDateStr, times[i])]

Without(s, i) == [j \in 1..(Len(s) - 1) |-> IF j < i THEN s[j] ELSE s[j + 1]]

\* sort.Slice with less = (Time_i < Time_j), lines 304-306.  sort.Slice is not
\* a stable sort: elements that compare equal may end in any order.  The
\* outcomes are the orderings of the input in which no slot is followed by
\* one with a smaller time.
RECURSIVE SortOutcomes(_)
SortOutcomes(s) ==
    IF s = <<>> THEN {<<>>}
    ELSE UNION { {<<s[i]>> \o rest : rest \in SortOutcomes(Without(s, i))} :
                 i \in {k \in DOMAIN s :
                          \A j \in DOMAIN s : ~StrLess(s[j].Time, s[k].Time)} }

\* selectUniqueSlots, lines 376-384: the loop from position i on.
RECURSIVE selectLoop(_, _, _, _, _)
selectLoop(allSlots, i, usedTimes, selectedSlots, appointmentCount) ==
    IF i > Len(allSlots) THEN selectedSlots
    ELSE IF allSlots[i].Time \notin usedTimes /\ Len(selectedSlots) < appointmentCount
         THEN selectLoop(allSlots, i + 1, usedTimes \cup {allSlots[i].Time},
                         Append(selectedSlots, allSlots[i]), appointmentCount)
         ELSE selectLoop(allSlots, i + 1, usedTimes, selectedSlots, appointmentCount)

\* selectUniqueSlots as it would be without the usedTimes test.
RECURSIVE selectFirstSlots(_, _)
selectFirstSlots(allSlots, appointmentCount) ==
    IF allSlots = <<>> \/ appointmentCount <= 0 THEN <<>>
    ELSE <<Head(allSlots)>> \o selectFirstSlots(Tail(allSlots), appointmentCount - 1)

selectUniqueSlots(allSlots, appointmentCount) ==
    selectLoop(allSlots, 1, {}, <<>>, appointmentCount)

\* bookAppointment, lines 437-443: slot.Time[:5] panics on a shorter string.
Panics(slot) == Len(slot.Time) < HoraLen

BookingRequest(slot) ==
    [IDOrdem |-> slot.OrderID, Data |-> slot.Date, Hora |-> SubSeq(slot.Time, 1, HoraLen)]

\* bookAppointment as it would be without the test of agendou.
bookAppointmentTrustsStatus(reply) ==
    IF ~reply.net THEN BookingResult(ZeroResponse, ErrTransport)
    ELSE IF reply.status # StatusOK THEN BookingResult(ZeroResponse, ErrStatus)
    ELSE IF ~reply.json THEN BookingResult(ZeroResponse, ErrDecode)
    ELSE BookingResult(reply.body, NoError)

\* bookAppointment as it would be if any 2xx status were let through.
bookAppointmentAccepts2xx(reply) ==
    IF ~reply.net THEN BookingResult(ZeroResponse, ErrTransport)
    ELSE IF reply.status \notin 200..299 THEN BookingResult(ZeroResponse, ErrStatus)
    ELSE IF ~reply.json THEN BookingResult(ZeroResponse, ErrDecode)
    ELSE IF reply.body.Agendou # 1 THEN BookingResult(ZeroResponse, ErrAgendou)
    ELSE BookingResult(reply.body, NoError)

\* bookAppointment, lines 453-479: what it returns for the reply to its POST.
bookAppointment(reply) ==
    IF ~reply.net THEN BookingResult(ZeroResponse, ErrTransport)
    ELSE IF reply.status # StatusOK THEN BookingResult(ZeroResponse, ErrStatus)
    ELSE IF ~reply.json THEN BookingResult(ZeroResponse, ErrDecode)
    ELSE IF reply.body.Agendou # 1 THEN BookingResult(ZeroResponse, ErrAgendou)
    ELSE BookingResult(reply.body, NoError)

\* A location name in upper case.
Upper(nome) == IF nome = "Natal" THEN "NATAL" ELSE nome

\* filterOrders as it would be with a comparison that ignores case.
RECURSIVE filterOrdersIgnoringCase(_, _)
filterOrdersIgnoringCase(orders, location) ==
    IF orders = <<>> THEN <<>>
    ELSE IF Upper(Head(orders).Nome) = Upper(location)
         THEN <<Head(orders)>> \o filterOrdersIgnoringCase(Tail(orders), location)
         ELSE filterOrdersIgnoringCase(Tail(orders), location)

\* runScheduling, lines 151-156.
RECURSIVE filterOrders(_, _)
filterOrders(orders, location) ==
    IF orders = <<>> THEN <<>>
    ELSE IF Head(orders).Nome = location
         THEN <<Head(orders)>> \o filterOrders(Tail(orders), location)
         ELSE filterOrders(Tail(orders), location)

\* runScheduling, lines 192-203: the results without an error, in order.
RECURSIVE successes(_)
successes(bookingResults) ==
    IF bookingResults = <<>> THEN <<>>
    ELSE IF Head(bookingResults).err # NoError THEN successes(Tail(bookingResults))
         ELSE <<Head(bookingResults).response>> \o successes(Tail(bookingResults))

\* getAvailableDates, lines 314-332: only a transport failure or an undecodable
\* body is an error; the status is not looked at.
getAvailableDates(reply) ==
    IF ~reply.net \/ ~reply.json THEN [err |-> TRUE, dates |-> <<>>]
    ELSE [err |-> FALSE, dates |-> reply.body]

\* getAvailableTimes, lines 350-372: err tells whether an error is returned,
\* why which one.
getAvailableTimes(reply) ==
    IF ~reply.net THEN [err |-> TRUE, why |-> ErrTransport, times |-> <<>>]
    ELSE IF reply.status # StatusOK THEN [err |-> TRUE, why |-> ErrStatus, times |-> <<>>]
    ELSE IF ~reply.json THEN [err |-> TRUE, why |-> ErrParseJSON, times |-> <<>>]
    ELSE [err |-> FALSE, why |-> NoError, times |-> reply.body]

\* What the dates endpoint may answer when the target date is d: no answer,
\* an undecodable body, or a list of dates around d (under any status).
DatesReplies(d) ==
    {HttpReply(FALSE, 0, FALSE, <<>>), HttpReply(TRUE, StatusOK, FALSE, <<>>),
     HttpReply(TRUE, 500, TRUE, <<d>>)}
    \cup {HttpReply(TRUE, StatusOK, TRUE, l) : l \in SeqsUpTo({d, d + 1}, MaxDates)}

\* What the times endpoint may answer: no answer, an error status, a 2xx
\* status other than 200 with a list, an undecodable body, or a list of times.
TimesReplies ==
    {HttpReply(FALSE, 0, FALSE, <<>>), HttpReply(TRUE, 500, FALSE, <<>>),
     HttpReply(TRUE, 201, TRUE, <<T0900>>), HttpReply(TRUE, StatusOK, FALSE, <<>>)}
    \cup {HttpReply(TRUE, StatusOK, TRUE, l) : l \in SeqsUpTo(TimeStrings, MaxTimes)}

\* What the list-orders endpoint may answer.
OrdersReplies ==
    {HttpReply(FALSE, 0, FALSE, <<>>), HttpReply(TRUE, StatusOK, FALSE, <<>>)}
    \cup {HttpReply(TRUE, StatusOK, TRUE, l) : l \in OrderLists}

\* --------------------------------------------------------------- state

VARIABLES
    config,         \* Scheduler.config: Location and AppointmentCount
    service,        \* the kinds of reply the booking endpoint gives, per order
    now,            \* the wall clock's day
    pc,             \* where runScheduling is
    returnErr,      \* what runScheduling returned
    ordersDate,     \* history: the date of the list-orders request
    orders,         \* runScheduling: the fetched orders
    targetOrders,   \* runScheduling: the orders of the configured location
    targetDateStr,  \* collectAllTimeSlots: the target date
    collectIdx,     \* collectAllTimeSlots: the loop's position in orders
    allSlots,       \* collectAllTimeSlots / runScheduling: the collected slots
    lookups,        \* history: what each iteration of the collecting loop met
    slotsToBook,    \* runScheduling: the selected slots
    results,        \* bookAppointmentsConcurrently: the result slice
    writes,         \* history: the goroutines that wrote each entry of results
    wg,             \* the WaitGroup's counter
    semaphore,      \* the number of tokens in the semaphore channel
    spawnIdx,       \* the spawning loop's position in slots
    tpc,            \* where each booking goroutine is
    local,          \* each goroutine's (response, err) before it is stored
    sent,           \* history: the requests POSTed for each slot
    got,            \* history: the replies received for each slot
    bookingResults, \* runScheduling: the returned results
    successCount,   \* runScheduling: successCount
    output          \* the confirmation codes of the printed links

envVars == <<config, service, now>>
runVars == <<pc, returnErr>>
fetchVars == <<ordersDate, orders, targetOrders>>
collectVars == <<targetDateStr, collectIdx, allSlots, lookups>>
selectVars == <<slotsToBook>>
gateVars == <<wg, semaphore, spawnIdx>>
taskVars == <<results, writes, tpc, local, sent, got>>
reportVars == <<bookingResults, successCount, output>>

vars == <<envVars, runVars, fetchVars, collectVars, selectVars, gateVars, taskVars,
          reportVars>>

\* The state of everything runScheduling has not reached yet.
Untouched ==
    /\ returnErr = NoError
    /\ ordersDate = 0 /\ orders = <<>> /\ targetOrders = <<>>
    /\ targetDateStr = 0 /\ collectIdx = 0 /\ allSlots = <<>>
    /\ lookups = <<>>
    /\ slotsToBook = <<>>
    /\ results = <<>> /\ wg = 0 /\ semaphore = 0 /\ spawnIdx = 0
    /\ writes = <<>>
    /\ tpc = <<>> /\ local = <<>> /\ sent = <<>> /\ got = <<>>
    /\ bookingResults = <<>> /\ successCount = 0 /\ output = <<>>

\* main has loaded the configuration and calls runScheduling.
Init ==
    /\ config \in [Location : {"NATAL"}, AppointmentCount : 0..MaxCount]
    /\ service = [o \in OrderIds |-> BookingReplyKinds]
    /\ now \in StartDays
    /\ pc = "getOrders"
    /\ Untouched

\* ------------------------------------------------------- runScheduling

\* Lines 146-149 and getAvailableOrders: the orders of the next working day,
\* which is read from the clock.
GetAvailableOrders ==
    /\ pc = "getOrders"
    /\ ordersDate' = getNextWorkingDay(now)
    /\ \E reply \in OrdersReplies :
        IF reply.net /\ reply.json
        THEN /\ orders' = reply.body
             /\ pc' = "filter"
             /\ UNCHANGED returnErr
        ELSE /\ returnErr' = "failed to get orders"
             /\ pc' = "failed"
             /\ UNCHANGED orders
    /\ UNCHANGED <<envVars, targetOrders, collectVars, selectVars, gateVars, taskVars,
                   reportVars>>

\* FilterOrders as it would be without the test of len(targetOrders).
FilterOrdersUnchecked ==
    /\ pc = "filter"
    /\ targetOrders' = filterOrders(orders, config.Location)
    /\ pc' = "collect"
    /\ UNCHANGED <<envVars, returnErr, ordersDate, orders, collectVars, selectVars,
                   gateVars, taskVars, reportVars>>

\* Lines 151-161: keep the orders of the configured location; none is fatal.
FilterOrders ==
    /\ pc = "filter"
    /\ targetOrders' = filterOrders(orders, config.Location)
    /\ IF Len(targetOrders') = 0
       THEN /\ returnErr' = "no orders available for specified location on target date"
            /\ pc' = "failed"
       ELSE /\ pc' = "collect"
            /\ UNCHANGED returnErr
    /\ UNCHANGED <<envVars, ordersDate, orders, collectVars, selectVars, gateVars,
                   taskVars, reportVars>>

\* What one iteration of the collecting loop met for an order: whether the
\* date list it was given holds the target date, the reply to its times
\* request if it made one, and what getAvailableTimes returned for it.
Lookup(id, outcome, dates, asked, answer) ==
    [ID |-> id, outcome |-> outcome, offered |-> targetDateStr \in Range(dates),
     asked |-> asked, why |-> answer.why, times |-> answer.times]

\* No times request was made.
NotAsked == [err |-> FALSE, why |-> NoError, times |-> <<>>]

\* time.Now, line 255: midnight passes between two steps of the run, up to
\* the last day modelled.  After collectAllTimeSlots has read the clock
\* (line 266) it is read for log lines only, and its later ticks are left out.
Tick ==
    /\ pc \in {"getOrders", "filter", "collect"}
    /\ now < LastDay
    /\ now' = now + 1
    /\ UNCHANGED <<config, service, runVars, fetchVars, collectVars, selectVars,
                   gateVars, taskVars, reportVars>>

\* collectAllTimeSlots, lines 265-267: the target date is read from the clock.
CollectBegin ==
    /\ pc = "collect"
    /\ targetDateStr' = getNextWorkingDay(now)
    /\ collectIdx' = 1
    /\ allSlots' = <<>>
    /\ pc' = "collectLoop"
    /\ UNCHANGED <<envVars, returnErr, fetchVars, lookups, selectVars, gateVars,
                   taskVars, reportVars>>

\* CollectOrder as it would be if a failed lookup were returned to the caller
\* instead of skipped.
CollectOrderAborting ==
    /\ pc = "collectLoop"
    /\ collectIdx <= Len(targetOrders)
    /\ LET order == targetOrders[collectIdx] IN
       \E datesReply \in DatesReplies(targetDateStr), timesReply \in TimesReplies :
          LET d == getAvailableDates(datesReply)
              t == getAvailableTimes(timesReply)
          IN  IF d.err \/ (dateFound(d.dates, targetDateStr) /\ t.err)
              THEN /\ lookups' = Append(lookups,
                                        Lookup(order.ID, "dates failed", <<>>, <<>>, NotAsked))
                   /\ allSlots' = <<>>
                   /\ returnErr' = "failed to collect time slots"
                   /\ pc' = "failed"
              ELSE IF ~dateFound(d.dates, targetDateStr)
              THEN /\ lookups' = Append(lookups,
                                        Lookup(order.ID, "no date", d.dates, <<>>, NotAsked))
                   /\ UNCHANGED <<allSlots, runVars>>
              ELSE /\ allSlots' = allSlots \o SlotsOf(order.ID, targetDateStr, t.times)
                   /\ lookups' = Append(lookups,
                                        Lookup(order.ID, "served", d.dates, <<timesReply>>, t))
                   /\ UNCHANGED runVars
    /\ collectIdx' = collectIdx + 1
    /\ UNCHANGED <<envVars, fetchVars, targetDateStr, selectVars, gateVars,
                   taskVars, reportVars>>

\* collectAllTimeSlots, lines 269-302: one iteration of the loop over the
\* orders, with the replies of the dates and the times endpoints.
CollectOrder ==
    /\ pc = "collectLoop"
    /\ collectIdx <= Len(targetOrders)
    /\ LET order == targetOrders[collectIdx] IN
       \E datesReply \in DatesReplies(targetDateStr), timesReply \in TimesReplies :
          LET d == getAvailableDates(datesReply)
              t == getAvailableTimes(timesReply)
          IN  IF d.err
              THEN /\ lookups' = Append(lookups,
                                        Lookup(order.ID, "dates failed", <<>>, <<>>, NotAsked))
                   /\ UNCHANGED allSlots
              ELSE IF ~dateFound(d.dates, targetDateStr)
              THEN /\ lookups' = Append(lookups,
                                        Lookup(order.ID, "no date", d.dates, <<>>, NotAsked))
                   /\ UNCHANGED allSlots
              ELSE IF t.err
              THEN /\ lookups' = Append(lookups,
                                        Lookup(order.ID, "times failed", d.dates,
                                               <<timesReply>>, t))
                   /\ UNCHANGED allSlots
              ELSE /\ allSlots' = allSlots \o SlotsOf(order.ID, targetDateStr, t.times)
                   /\ lookups' = Append(lookups,
                                        Lookup(order.ID, "served", d.dates, <<timesReply>>, t))
    /\ collectIdx' = collectIdx + 1
    /\ UNCHANGED <<envVars, runVars, fetchVars, targetDateStr, selectVars, gateVars,
                   taskVars, reportVars>>

\* CollectSort as it would be without the sort.Slice call.
CollectSortUnsorted ==
    /\ pc = "collectLoop"
    /\ collectIdx > Len(targetOrders)
    /\ IF Len(allSlots) = 0
       THEN /\ returnErr' = "no time slots available"
            /\ pc' = "failed"
       ELSE /\ pc' = "select"
            /\ UNCHANGED returnErr
    /\ UNCHANGED <<envVars, fetchVars, collectVars, selectVars, gateVars, taskVars,
                   reportVars>>

\* collectAllTimeSlots, lines 304-308, and runScheduling, lines 165-173: the
\* slots are sorted by time and returned; no slot at all is fatal.
CollectSort ==
    /\ pc = "collectLoop"
    /\ collectIdx > Len(targetOrders)
    /\ allSlots' \in SortOutcomes(allSlots)
    /\ IF Len(allSlots') = 0
       THEN /\ returnErr' = "no time slots available"
            /\ pc' = "failed"
       ELSE /\ pc' = "select"
            /\ UNCHANGED returnErr
    /\ UNCHANGED <<envVars, fetchVars, targetDateStr, collectIdx, lookups,
                   selectVars, gateVars, taskVars, reportVars>>

\* Lines 177-188: the selection; no selected slot is fatal.
SelectSlots ==
    /\ pc = "select"
    /\ slotsToBook' = selectUniqueSlots(allSlots, config.AppointmentCount)
    /\ IF Len(slotsToBook') = 0
       THEN /\ returnErr' = "no unique slots available"
            /\ pc' = "failed"
       ELSE /\ pc' = "book"
            /\ UNCHANGED returnErr
    /\ UNCHANGED <<envVars, fetchVars, collectVars, gateVars, taskVars, reportVars>>

\* ---------------------------------------- bookAppointmentsConcurrently

Slots == DOMAIN slotsToBook

\* The process is running: no goroutine's panic has ended it.
Alive == pc # "crashed"

\* Lines 401-404: the result slice, one zero entry per slot, the WaitGroup and
\* the empty semaphore.  The collected slots and the collecting loop's
\* history are not read after this call (line 190) and are dropped from the
\* state here.
BookBegin ==
    /\ pc = "book"
    /\ results' = [i \in Slots |-> ZeroResult]
    /\ writes' = [i \in Slots |-> <<>>]
    /\ wg' = 0
    /\ semaphore' = 0
    /\ spawnIdx' = 1
    /\ tpc' = [i \in Slots |-> "unborn"]
    /\ local' = [i \in Slots |-> ZeroResult]
    /\ sent' = [i \in Slots |-> <<>>]
    /\ got' = [i \in Slots |-> <<>>]
    /\ collectIdx' = 0 /\ allSlots' = <<>> /\ lookups' = <<>>
    /\ pc' = "spawn"
    /\ UNCHANGED <<envVars, returnErr, fetchVars, targetDateStr, selectVars,
                   reportVars>>

\* Lines 406-423: wg.Add(1) and the go statement for the next slot.
SpawnTask ==
    /\ pc = "spawn"
    /\ spawnIdx <= Len(slotsToBook)
    /\ wg' = wg + 1
    /\ tpc' = [tpc EXCEPT ![spawnIdx] = "acquire"]
    /\ spawnIdx' = spawnIdx + 1
    /\ UNCHANGED <<envVars, runVars, fetchVars, collectVars, selectVars, semaphore,
                   results, writes, local, sent, got, reportVars>>

\* Acquire as it would be on an unbuffered-size mistake: the send never blocks.
AcquireNeverBlocks(i) ==
    /\ Alive
    /\ tpc[i] = "acquire"
    /\ semaphore' = semaphore + 1
    /\ tpc' = [tpc EXCEPT ![i] = "call"]
    /\ UNCHANGED <<envVars, runVars, fetchVars, collectVars, selectVars, wg, spawnIdx,
                   results, writes, local, sent, got, reportVars>>

\* Line 411: semaphore <- struct{}{} blocks while the channel is full.
Acquire(i) ==
    /\ Alive
    /\ tpc[i] = "acquire"
    /\ semaphore < GateCapacity
    /\ semaphore' = semaphore + 1
    /\ tpc' = [tpc EXCEPT ![i] = "call"]
    /\ UNCHANGED <<envVars, runVars, fetchVars, collectVars, selectVars, wg, spawnIdx,
                   results, writes, local, sent, got, reportVars>>

\* Line 417 and bookAppointment: a time shorter than five characters panics
\* before any request is made; otherwise the request is POSTed, the service
\* replies and bookAppointment returns its (response, err).
Call(i) ==
    /\ Alive
    /\ tpc[i] = "call"
    /\ IF Panics(slotsToBook[i])
       THEN /\ tpc' = [tpc EXCEPT ![i] = "panicRelease"]
            /\ UNCHANGED <<local, sent, got>>
       ELSE LET request == BookingRequest(slotsToBook[i]) IN
            \E kind \in service[slotsToBook[i].OrderID] :
               LET reply == BookingReply(kind, request) IN
               /\ sent' = [sent EXCEPT ![i] = Append(@, request)]
               /\ got' = [got EXCEPT ![i] = Append(@, reply)]
               /\ local' = [local EXCEPT ![i] = bookAppointment(reply)]
               /\ tpc' = [tpc EXCEPT ![i] = "store"]
    /\ UNCHANGED <<envVars, runVars, fetchVars, collectVars, selectVars, gateVars,
                   results, writes, reportVars>>

\* Store as it would be if the goroutines shared the loop's index variable:
\* each writes the entry of the last slot.
StoreAtSharedIndex(i) ==
    /\ Alive
    /\ tpc[i] = "store"
    /\ results' = [results EXCEPT ![Len(results)] = local[i]]
    /\ writes' = [writes EXCEPT ![Len(results)] = Append(@, i)]
    /\ tpc' = [tpc EXCEPT ![i] = "release"]
    /\ UNCHANGED <<envVars, runVars, fetchVars, collectVars, selectVars, gateVars,
                   local, sent, got, reportVars>>

\* Lines 418-421: results[index] = BookingResult{response, err}.
Store(i) ==
    /\ Alive
    /\ tpc[i] = "store"
    /\ results' = [results EXCEPT ![i] = local[i]]
    /\ writes' = [writes EXCEPT ![i] = Append(@, i)]
    /\ tpc' = [tpc EXCEPT ![i] = "release"]
    /\ UNCHANGED <<envVars, runVars, fetchVars, collectVars, selectVars, gateVars,
                   local, sent, got, reportVars>>

\* Line 412: the deferred <-semaphore, run on return and on panic alike.
Release(i) ==
    /\ Alive
    /\ tpc[i] \in {"release", "panicRelease"}
    /\ semaphore' = semaphore - 1
    /\ tpc' = [tpc EXCEPT ![i] = IF tpc[i] = "release" THEN "wgDone" ELSE "panicDone"]
    /\ UNCHANGED <<envVars, runVars, fetchVars, collectVars, selectVars, wg, spawnIdx,
                   results, writes, local, sent, got, reportVars>>

\* Line 409: the deferred wg.Done(), run last, on return and on panic alike.
Done(i) ==
    /\ Alive
    /\ tpc[i] \in {"wgDone", "panicDone"}
    /\ wg' = wg - 1
    /\ tpc' = [tpc EXCEPT ![i] = IF tpc[i] = "wgDone" THEN "finished" ELSE "panicExit"]
    /\ UNCHANGED <<envVars, runVars, fetchVars, collectVars, selectVars, semaphore,
                   spawnIdx, results, writes, local, sent, got, reportVars>>

\* A goroutine whose panic no deferred call recovered ends the process, but
\* only once its deferred calls have run (lines 409 and 412): until then the
\* other goroutines, the coordinator among them, keep running.
Crash(i) ==
    /\ pc \notin {"crashed", "done", "failed"}
    /\ tpc[i] = "panicExit"
    /\ pc' = "crashed"
    /\ UNCHANGED <<envVars, returnErr, fetchVars, collectVars, selectVars, gateVars,
                   taskVars, reportVars>>

\* Lines 425-426: wg.Wait() returns when the counter is zero; results is
\* returned.
WaitReturn ==
    /\ pc = "spawn"
    /\ spawnIdx > Len(slotsToBook)
    /\ wg = 0
    /\ bookingResults' = results
    /\ pc' = "aggregate"
    /\ UNCHANGED <<envVars, returnErr, fetchVars, collectVars, selectVars, gateVars,
                   taskVars, successCount, output>>

\* Aggregate as it would be if any failed booking failed the run.
AggregateAllOrNothing ==
    /\ pc = "aggregate"
    /\ LET successfulBookings == successes(bookingResults) IN
       /\ successCount' = Len(successfulBookings)
       /\ IF successCount' < Len(bookingResults)
          THEN /\ returnErr' = "all booking attempts failed"
               /\ pc' = "failed"
               /\ UNCHANGED output
          ELSE /\ output' = [i \in DOMAIN successfulBookings |->
                                successfulBookings[i].CodigoVaga]
               /\ pc' = "done"
               /\ UNCHANGED returnErr
    /\ UNCHANGED <<envVars, fetchVars, collectVars, selectVars, gateVars, taskVars,
                   bookingResults>>

\* runScheduling, lines 192-221: count the successes; none is fatal; print
\* the link of each successful booking.
Aggregate ==
    /\ pc = "aggregate"
    /\ LET successfulBookings == successes(bookingResults) IN
       /\ successCount' = Len(successfulBookings)
       /\ IF successCount' = 0
          THEN /\ returnErr' = "all booking attempts failed"
               /\ pc' = "failed"
               /\ UNCHANGED output
          ELSE /\ output' = [i \in DOMAIN successfulBookings |->
                                successfulBookings[i].CodigoVaga]
               /\ pc' = "done"
               /\ UNCHANGED returnErr
    /\ UNCHANGED <<envVars, fetchVars, collectVars, selectVars, gateVars, taskVars,
                   bookingResults>>

\* ------------------------------------------------------ specifications

Tasks == DOMAIN tpc

Next ==
    \/ Tick
    \/ GetAvailableOrders
    \/ FilterOrders
    \/ CollectBegin
    \/ CollectOrder
    \/ CollectSort
    \/ SelectSlots
    \/ BookBegin
    \/ SpawnTask
    \/ \E i \in Tasks : Acquire(i)
    \/ \E i \in Tasks : Call(i)
    \/ \E i \in Tasks : Store(i)
    \/ \E i \in Tasks : Release(i)
    \/ \E i \in Tasks : Done(i)
    \/ \E i \in Tasks : Crash(i)
    \/ WaitReturn
    \/ Aggregate

\* A whole run of runScheduling.
Spec == Init /\ [][Next]_vars

\* selectUniqueSlots on any list of slots, sorted or not, and any count.
SlotUniverse == {TimeSlot(id, d, t) : id \in OrderIds, d \in {8}, t \in TimeStrings}

InitSelect ==
    /\ config \in [Location : {"NATAL"}, AppointmentCount : 0..MaxCount]
    /\ service = [o \in OrderIds |-> BookingReplyKinds]
    /\ now \in StartDays
    /\ pc = "select"
    /\ returnErr = NoError
    /\ ordersDate = 0 /\ orders = <<>> /\ targetOrders = <<>>
    /\ targetDateStr = 0 /\ collectIdx = 0
    /\ allSlots \in SeqsUpTo(SlotUniverse, MaxSlots)
    /\ lookups = <<>>
    /\ slotsToBook = <<>>
    /\ results = <<>> /\ wg = 0 /\ semaphore = 0 /\ spawnIdx = 0
    /\ writes = <<>>
    /\ tpc = <<>> /\ local = <<>> /\ sent = <<>> /\ got = <<>>
    /\ bookingResults = <<>> /\ successCount = 0 /\ output = <<>>

NextSelect == SelectSlots

SpecSelect == InitSelect /\ [][NextSelect]_vars

\* bookAppointmentsConcurrently on batches larger than the gate: slot i is of
\* order 1 or 2 in turn; either every time is well formed or the first slot's
\* is too short; the service books everything, or books for order 1 and
\* answers 500 for order 2.
Batches ==
    {[i \in 1..n |-> TimeSlot(1 + (i % 2), 8, IF i = short THEN T930 ELSE T0900)] :
        n \in 1..(GateCapacity + ExtraTasks), short \in {0, 1}}

ServicePlans ==
    {[o \in OrderIds |-> {"booked"}],
     [o \in OrderIds |-> IF o = 1 THEN {"booked"} ELSE {"http500"}]}

InitBook ==
    /\ slotsToBook \in Batches
    /\ config = [Location |-> "NATAL", AppointmentCount |-> Len(slotsToBook)]
    /\ service \in ServicePlans
    /\ now \in StartDays
    /\ pc = "book"
    /\ returnErr = NoError
    /\ ordersDate = 0 /\ orders = <<>> /\ targetOrders = <<>>
    /\ targetDateStr = 0 /\ collectIdx = 0 /\ allSlots = <<>>
    /\ lookups = <<>>
    /\ results = <<>> /\ wg = 0 /\ semaphore = 0 /\ spawnIdx = 0
    /\ writes = <<>>
    /\ tpc = <<>> /\ local = <<>> /\ sent = <<>> /\ got = <<>>
    /\ bookingResults = <<>> /\ successCount = 0 /\ output = <<>>

NextBook ==
    \/ BookBegin
    \/ SpawnTask
    \/ \E i \in Tasks : Acquire(i)
    \/ \E i \in Tasks : Call(i)
    \/ \E i \in Tasks : Store(i)
    \/ \E i \in Tasks : Release(i)
    \/ \E i \in Tasks : Done(i)
    \/ \E i \in Tasks : Crash(i)
    \/ WaitReturn

SpecBook == InitBook /\ [][NextBook]_vars

\* getNextWorkingDay on every day of two weeks: the run up to the reading of
\* the target date, on a clock that stays within the day.
InitDay ==
    /\ config = [Location |-> "NATAL", AppointmentCount |-> 1]
    /\ service = [o \in OrderIds |-> BookingReplyKinds]
    /\ now \in 0..Horizon
    /\ pc = "getOrders"
    /\ Untouched

NextDay ==
    \/ GetAvailableOrders
    \/ FilterOrders
    \/ CollectBegin

SpecDay == InitDay /\ [][NextDay]_vars

\* The steps of goroutine i.
TaskStep(i) ==
    /\ i \in Tasks
    /\ Acquire(i) \/ Call(i) \/ Store(i) \/ Release(i) \/ Done(i) \/ Crash(i)

\* The Go scheduler runs every goroutine that can run, the coordinator and
\* each task; the HTTP client's timeout ends every call; the runtime ends the
\* process of an unrecovered panic.
FairBook ==
    /\ WF_vars(BookBegin) /\ WF_vars(SpawnTask) /\ WF_vars(WaitReturn)
    /\ \A i \in 1..(GateCapacity + ExtraTasks) : WF_vars(TaskStep(i))

\* bookAppointmentsConcurrently under fair scheduling.
SpecBookFair == InitBook /\ [][NextBook]_vars /\ FairBook

\* -------------------------------------------------------------- claims

\* The tasks between acquiring the gate and releasing it.
InFlight == {i \in Tasks : tpc[i] \in {"call", "store", "release", "panicRelease"}}

\* C1: at no point of bookAppointmentsConcurrently are more than 5 tasks
\* between acquiring the admission gate and releasing it.
C1_GateBound == Cardinality(InFlight) <= 5

\* C1's case: five tasks hold the gate and a sixth waits for it.
C1_GateFull ==
    /\ Cardinality(InFlight) = 5
    /\ \E i \in Tasks : tpc[i] = "acquire"

\* bookAppointmentsConcurrently has returned its results.
Returned == pc \in {"aggregate", "done", "failed"} /\ Len(bookingResults) > 0

\* C2: the returned list is as long as the input and its i-th entry is the
\* outcome of the booking call made for the i-th slot.
C2_ResultsInInputOrder ==
    Returned =>
        /\ Len(bookingResults) = Len(slotsToBook)
        /\ \A i \in DOMAIN bookingResults :
              /\ Len(got[i]) = 1
              /\ sent[i] = <<BookingRequest(slotsToBook[i])>>
              /\ bookingResults[i] = bookAppointment(got[i][1])

\* C3: every slot gets exactly one booking call, never a second one, whatever
\* the other calls' outcomes, and the coordinator returns only after every task
\* has finished.
C3_OneCallPerSlot ==
    /\ \A i \in Tasks : Len(sent[i]) <= 1
    /\ Returned =>
          /\ \A i \in Tasks : Len(sent[i]) = 1
          /\ \A i \in Tasks : tpc[i] = "finished"

\* C4: selectUniqueSlots returns slots of its input, at most AppointmentCount
\* of them, no two with the same time-of-day.
C4_SelectedUniqueSubset ==
    pc \in {"book", "failed"} =>
        /\ Range(slotsToBook) \subseteq Range(allSlots)
        /\ Len(slotsToBook) <= config.AppointmentCount
        /\ \A i, j \in DOMAIN slotsToBook : i # j => slotsToBook[i].Time # slotsToBook[j].Time

\* C4's case: an input with a repeated time-of-day and more distinct times
\* than the count allows, cut to a non-empty selection.
C4_DuplicatesDropped ==
    /\ pc = "book"
    /\ \E i, j \in DOMAIN allSlots : i # j /\ allSlots[i].Time = allSlots[j].Time
    /\ Cardinality({allSlots[i].Time : i \in DOMAIN allSlots}) > config.AppointmentCount
    /\ Len(slotsToBook) = config.AppointmentCount

\* The distinct times-of-day of a list of slots.
TimesOf(slots) == {slots[i].Time : i \in DOMAIN slots}

\* The smaller of two numbers.
Min(a, b) == IF a < b THEN a ELSE b

\* The first order of the input list for which the collection holds a slot at
\* time t.
FirstOrderOffering(t) ==
    LET offering == {p \in DOMAIN targetOrders :
                        \E i \in DOMAIN allSlots :
                            allSlots[i].Time = t /\ allSlots[i].OrderID = targetOrders[p].ID}
    IN  targetOrders[CHOOSE p \in offering : \A q \in offering : p <= q].ID

\* The selected slots carry the k smallest distinct times of the collection.
SelectedEarliest ==
    /\ Cardinality(TimesOf(slotsToBook)) =
          Min(config.AppointmentCount, Cardinality(TimesOf(allSlots)))
    /\ \A t \in TimesOf(slotsToBook), u \in TimesOf(allSlots) \ TimesOf(slotsToBook) :
          StrLess(t, u)

\* C5: after collection and selection the selected slots carry the k smallest
\* distinct times-of-day of the collection, and the slot selected for a time
\* that several orders offer belongs to the first of them in the input order.
C5_EarliestTimesFirstOrder ==
    (pc = "book" /\ allSlots # <<>>) =>
        /\ SelectedEarliest
        /\ \A i \in DOMAIN slotsToBook :
              slotsToBook[i].OrderID = FirstOrderOffering(slotsToBook[i].Time)

\* The reply a task got says 200 with a well-formed body whose agendou is not 1.
Refused(i) ==
    /\ got[i] # <<>>
    /\ got[i][1].net /\ got[i][1].status = 200 /\ got[i][1].json
    /\ got[i][1].body.Agendou # 1

\* runScheduling has counted the returned results.
Counted == pc \in {"done", "failed"} /\ Len(bookingResults) > 0

\* C6: a booking call answered 200 with a well-formed body and agendou # 1
\* returns an error; its result is counted as a failure, never as a success,
\* and its code is not among the printed links.
C6_RefusalIsFailure ==
    \A i \in Tasks :
        Refused(i) =>
            /\ local[i].err # NoError
            /\ tpc[i] \in {"release", "wgDone", "finished"} => results[i].err # NoError
            /\ Returned => bookingResults[i].err # NoError
            /\ Counted =>
                  /\ successCount <= Cardinality({j \in Tasks : ~Refused(j)})
                  /\ got[i][1].body.CodigoVaga \notin Range(output)

\* C6's case: a run that counted one refused booking beside a successful one.
C6_RefusedBesideBooked ==
    /\ pc = "done"
    /\ \E i \in Tasks : Refused(i)
    /\ successCount = 1

\* collectAllTimeSlots has returned to runScheduling.
Collected ==
    \/ pc \in {"select", "book"}
    \/ pc = "failed" /\ returnErr \in {"no time slots available", "no unique slots available"}

FailedLookup(l) == l.outcome \in {"dates failed", "times failed"}

\* How many entries of a sequence satisfy a test.
Count(s, Test(_)) == Cardinality({i \in DOMAIN s : Test(s[i])})

\* C7: a failing date or time lookup makes its order contribute no slot; the
\* collection still visits every order, returns without error and holds every
\* slot of every order that was served, as often as the order's times name it.
C7_FailedLookupSkipsOrder ==
    /\ returnErr # "failed to collect time slots"
    /\ Collected =>
          /\ Len(lookups) = Len(targetOrders)
          /\ \A p \in DOMAIN lookups : lookups[p].ID = targetOrders[p].ID
          /\ \A p \in DOMAIN lookups :
                FailedLookup(lookups[p]) =>
                    \A i \in DOMAIN allSlots : allSlots[i].OrderID # lookups[p].ID
          /\ \A p \in DOMAIN lookups : \A t \in TimeStrings :
                lookups[p].outcome = "served" =>
                    LET IsSlot(x) == x = TimeSlot(lookups[p].ID, targetDateStr, t)
                        IsTime(x) == x = t
                    IN  Count(allSlots, IsSlot) = Count(lookups[p].times, IsTime)

\* C7's case: one order's lookup failed, another order was served, and the
\* collection returned exactly the served order's slots.
C7_FailureBesideServed ==
    /\ pc = "select"
    /\ \E p, q \in DOMAIN lookups :
          /\ p # q
          /\ FailedLookup(lookups[p])
          /\ lookups[q].outcome = "served"
          /\ Len(lookups[q].times) = Len(allSlots)

\* The error the claim names for a failed booking call, from its reply.
ExpectedErr(reply) ==
    IF ~reply.net THEN ErrTransport
    ELSE IF reply.status # 200 THEN ErrStatus
    ELSE IF ~reply.json THEN ErrDecode
    ELSE IF reply.body.Agendou # 1 THEN ErrAgendou
    ELSE NoError

\* The task has stored its result.
Stored(i) == tpc[i] \in {"release", "wgDone", "finished"}

\* What task j's entry holds whatever the other tasks met: nothing before it
\* stores, the outcome of its own call after.
OwnOutcome(j) ==
    IF got[j] = <<>> THEN ZeroResult
    ELSE IF ExpectedErr(got[j][1]) # NoError
         THEN BookingResult(ZeroResponse, ExpectedErr(got[j][1]))
         ELSE BookingResult(got[j][1].body, NoError)

\* C8: the error of a failed booking call is recorded in the entry of the
\* call's own slot, and every entry holds what its own call gave, whatever
\* became of the other calls.
C8_FailureStaysAtIndex ==
    /\ \A i \in Tasks :
          (Stored(i) /\ ExpectedErr(got[i][1]) # NoError) =>
              results[i].err = ExpectedErr(got[i][1])
    /\ \A j \in Tasks : results[j] = IF Stored(j) THEN OwnOutcome(j) ELSE ZeroResult
    /\ Returned => \A j \in DOMAIN bookingResults : bookingResults[j] = OwnOutcome(j)

\* C8's case: the returned results hold an HTTP error at the first index and a
\* booking at the second.
C8_FailureBesideSuccess ==
    /\ Returned
    /\ Len(bookingResults) = 2
    /\ bookingResults[1].err = ErrStatus
    /\ bookingResults[2].err = NoError
    /\ bookingResults[2].response.Agendou = 1

\* No booking request has been made.
NoBookingCall == \A i \in DOMAIN sent : sent[i] = <<>>

FatalBeforeBooking ==
    {"no orders available for specified location on target date",
     "no time slots available", "no unique slots available"}

\* C9: with no order of the configured location, with no collected slot and
\* with no selected slot, runScheduling returns its fatal error and no booking
\* call is made.
C9_FatalWithoutBooking ==
    /\ (pc = "failed" /\ returnErr \in FatalBeforeBooking) => NoBookingCall /\ tpc = <<>>
    /\ pc \in {"collect", "collectLoop", "select", "book"} => Len(targetOrders) > 0
    /\ pc \in {"select", "book"} => Len(allSlots) > 0
    /\ pc \in {"book", "spawn", "aggregate", "done", "crashed"} => Len(slotsToBook) > 0
    /\ ~NoBookingCall => Len(targetOrders) > 0 /\ Len(slotsToBook) > 0
    /\ (pc = "failed" /\ returnErr = "no orders available for specified location on target date")
          => \A i \in DOMAIN orders : orders[i].Nome # config.Location
    /\ (pc = "failed" /\ returnErr = "no time slots available") => allSlots = <<>>
    /\ (pc = "failed" /\ returnErr = "no unique slots available") => slotsToBook = <<>>

\* C9's case: slots were collected, none was selected, and the run failed.
C9_NothingSelected ==
    /\ pc = "failed"
    /\ returnErr = "no unique slots available"
    /\ Len(allSlots) > 0
    /\ NoBookingCall

\* The indices of the results without an error.
Succeeded == {i \in DOMAIN bookingResults : bookingResults[i].err = NoError}

\* The n-th smallest member of a set of numbers.
RECURSIVE Nth(_, _)
Nth(S, n) ==
    LET least == CHOOSE x \in S : \A y \in S : x <= y
    IN  IF n = 1 THEN least ELSE Nth(S \ {least}, n - 1)

\* C10: once the results are counted, runScheduling returns an error exactly
\* when every result carries one; otherwise it returns success, the count is
\* the number of results without an error and the printed codes are those of
\* these results, in the results' order.
C10_PartialSuccess ==
    Counted =>
        /\ pc = "failed" <=> Succeeded = {}
        /\ pc = "failed" => returnErr = "all booking attempts failed"
        /\ pc = "done" =>
              /\ returnErr = NoError
              /\ successCount = Cardinality(Succeeded)
              /\ Len(output) = Cardinality(Succeeded)
              /\ \A n \in DOMAIN output :
                    output[n] = bookingResults[Nth(Succeeded, n)].response.CodigoVaga

\* C10's case: one booking failed, another succeeded, and the run succeeded.
C10_SomeFailedRunSucceeded ==
    /\ pc = "done"
    /\ Succeeded # {}
    /\ Succeeded # DOMAIN bookingResults

\* The number of booking requests POSTed so far for the slots from i on.
RECURSIVE CallsFrom(_)
CallsFrom(i) == IF i > Len(sent) THEN 0 ELSE Len(sent[i]) + CallsFrom(i + 1)

BookingCalls == CallsFrom(1)

\* selectUniqueSlots has returned and what was collected is still at hand.
Selected ==
    \/ pc = "book"
    \/ pc = "failed" /\ returnErr = "no unique slots available"

\* C11: with at least one distinct time-of-day among the collected slots but
\* fewer than AppointmentCount, runScheduling does not abort: every distinct
\* time is selected, and once the booking has returned as many booking calls
\* were made as there are selected slots; never are more booking calls made
\* than AppointmentCount.
C11_FewerSlotsStillBooked ==
    /\ BookingCalls <= config.AppointmentCount
    /\ (Selected /\ Cardinality(TimesOf(allSlots)) \in 1..(config.AppointmentCount - 1)) =>
          /\ pc = "book"
          /\ Len(slotsToBook) = Cardinality(TimesOf(allSlots))
    /\ (Returned /\ Len(slotsToBook) < config.AppointmentCount) =>
          BookingCalls = Len(slotsToBook)

\* The statuses of the 2xx range.
Is2xx(status) == status \in 200..299

\* The replies to the booking requests with what bookAppointment returned for
\* them, and the replies to the times requests with what getAvailableTimes
\* returned for them: reply, error, whether a value was decoded from the body.
ClientResults ==
    {[reply |-> got[i][1], err |-> local[i].err,
      decoded |-> local[i].err \in {NoError, ErrAgendou}] :
        i \in {j \in Tasks : got[j] # <<>>}}
    \cup
    {[reply |-> lookups[p].asked[1], err |-> lookups[p].why,
      decoded |-> lookups[p].outcome = "served" /\ lookups[p].times = lookups[p].asked[1].body] :
        p \in {q \in DOMAIN lookups : lookups[q].asked # <<>>}}

DecodeErrors == {ErrDecode, ErrParseJSON}

Holds(i) == i \in InFlight

\* Task i waits to acquire the gate.
Waits(i) == i \in Tasks /\ tpc[i] = "acquire"

\* C13: under fair scheduling and with every call returning,
\* bookAppointmentsConcurrently eventually returns; a task that waits for the
\* gate eventually gets it, a task that holds it eventually releases it, and
\* no token is held when the coordinator returns.
C13_ReturnsAndReleases ==
    /\ <>(pc = "aggregate")
    /\ \A i \in 1..(GateCapacity + ExtraTasks) :
          /\ Waits(i) ~> ~Waits(i)
          /\ Holds(i) ~> ~Holds(i)
    /\ [](pc = "aggregate" => semaphore = 0)

\* C14: no entry of the result list is written by two tasks or twice, and
\* when the coordinator returns the list, and its caller reads it, every
\* entry has been written once, by the task of its own slot.
C14_EachEntryWrittenOnce ==
    /\ \A j \in DOMAIN writes : Len(writes[j]) <= 1
    /\ Returned => \A j \in DOMAIN writes : writes[j] = <<j>>

\* The loop iterations whose order was given a date list holding the target
\* date.
DateOffered == {p \in DOMAIN lookups : lookups[p].offered}

\* The loop iterations whose order was also given a list of times.
TimesGiven ==
    {p \in DOMAIN lookups :
        /\ lookups[p].asked # <<>>
        /\ lookups[p].asked[1].net /\ lookups[p].asked[1].status = 200
        /\ lookups[p].asked[1].json}

\* C15: the list collectAllTimeSlots returns is sorted ascending by time
\* string; each of its slots carries the target date and the id of an order
\* whose date list holds the target date; and for each such order that was
\* given its times, the list holds one slot per time string of the reply,
\* as often as the reply names it.
C15_CollectedSortedAndComplete ==
    Collected =>
        /\ \A i, j \in DOMAIN allSlots :
              i < j => ~StrLess(allSlots[j].Time, allSlots[i].Time)
        /\ \A i \in DOMAIN allSlots :
              /\ allSlots[i].Date = targetDateStr
              /\ \E p \in DateOffered : lookups[p].ID = allSlots[i].OrderID
        /\ \A p \in DateOffered \cap TimesGiven : \A t \in TimeStrings :
              LET IsSlot(x) == x = TimeSlot(lookups[p].ID, targetDateStr, t)
                  IsTime(x) == x = t
              IN  Count(allSlots, IsSlot) = Count(lookups[p].asked[1].body, IsTime)

\* C15's case: two orders were given times, one of them the same time twice,
\* the later order an earlier time than the first, and the three slots were
\* returned.
C15_TwoOrdersWithDuplicate ==
    /\ pc = "select"
    /\ Len(allSlots) = 3
    /\ \E p \in TimesGiven :
          Len(lookups[p].times) = 2 /\ lookups[p].times[1] = lookups[p].times[2]
    /\ \E p, q \in TimesGiven :
          p < q /\ StrLess(lookups[q].times[1], lookups[p].times[1])

\* The order with this id is one of the configured location.
InLocation(id) ==
    \E p \in DOMAIN targetOrders :
        targetOrders[p].ID = id /\ targetOrders[p].Nome = config.Location

\* The ids of the orders the dates or the times endpoint was asked about, of
\* the collected and the selected slots, and of the booking requests.
Queried == {lookups[p].ID : p \in DOMAIN lookups}
Slotted == {allSlots[i].OrderID : i \in DOMAIN allSlots}
           \cup {slotsToBook[i].OrderID : i \in DOMAIN slotsToBook}
Requested ==
    UNION {{sent[i][k].IDOrdem : k \in DOMAIN sent[i]} : i \in DOMAIN sent}

\* The ids of the fetched orders of a location other than the configured one.
Foreign == {orders[p].ID : p \in {q \in DOMAIN orders : orders[q].Nome # config.Location}}

\* C16: every booking request names an order whose location name equals the
\* configured location; no order of another location is asked about at the
\* dates or the times endpoint, collected, selected or booked.
C16_OnlyConfiguredLocation ==
    /\ \A id \in Requested \cup Queried \cup Slotted : InLocation(id)
    /\ (Requested \cup Queried \cup Slotted) \cap Foreign = {}

\* C16's case: the service listed an order of the configured location and one
\* whose location differs from it by case only, and the booking has returned
\* after requests for the first.
C16_ForeignOrderLeftOut ==
    /\ Returned
    /\ \E p, q \in DOMAIN orders :
          orders[p].Nome = "Natal" /\ orders[q].Nome = config.Location
    /\ Requested # {}

\* collectAllTimeSlots has read its target date.
DateRead == pc \notin {"getOrders", "filter", "collect"} /\ targetDateStr # 0

\* The dates of the booking requests.
RequestedDates ==
    UNION {{sent[i][k].Data : k \in DOMAIN sent[i]} : i \in DOMAIN sent}

\* C17: the date of the list-orders request, the date matched against the
\* date lists and asked of the times endpoint, and the date of every collected,
\* selected and booked slot are one and the same, also when midnight passes
\* during the run.
C17_OneTargetDate ==
    DateRead =>
        /\ targetDateStr = ordersDate
        /\ \A i \in DOMAIN allSlots : allSlots[i].Date = ordersDate
        /\ \A i \in DOMAIN slotsToBook : slotsToBook[i].Date = ordersDate
        /\ \A d \in RequestedDates : d = ordersDate

\* C18: whatever time string a slot has, one shorter than 5 characters
\* included, its task ends by recording a response or an error at its own
\* index; no task ends otherwise, the process goes on, and the returned list
\* holds an outcome at every index.
C18_EveryTaskRecords ==
    /\ pc # "crashed"
    /\ \A i \in Tasks : tpc[i] \notin {"panicRelease", "panicDone", "panicExit"}
    /\ Returned =>
          \A i \in DOMAIN bookingResults :
              bookingResults[i].err # NoError \/ bookingResults[i].response # ZeroResponse

\* C19: every returned BookingResult holds exactly one outcome: without an
\* error its response has agendou 1, with an error its response is the zero
\* response, which carries no code.
C19_ExactlyOneOutcome ==
    Returned =>
        \A i \in DOMAIN bookingResults :
            /\ bookingResults[i].err = NoError => bookingResults[i].response.Agendou = 1
            /\ bookingResults[i].err # NoError =>
                  /\ bookingResults[i].response = ZeroResponse
                  /\ bookingResults[i].response.CodigoVaga = EmptyString

\* Day d is the earliest day after today that is a Monday to a Friday.
IsNextWorkingDay(today, d) ==
    /\ d > today
    /\ d % 7 \in 1..5
    /\ \A e \in (today + 1)..(d - 1) : e % 7 \notin 1..5

\* C20: on every day, getNextWorkingDay gives the earliest day strictly after
\* it that is neither a Saturday nor a Sunday, for the list-orders request and
\* for the collection alike.
C20_EarliestWeekdayAfterToday ==
    /\ pc # "getOrders" => IsNextWorkingDay(now, ordersDate)
    /\ pc = "collectLoop" => IsNextWorkingDay(now, targetDateStr)

\* C20's case: on a Friday the target date read is the Monday, three days on.
C20_FridayGivesMonday ==
    /\ pc = "collectLoop"
    /\ now % 7 = 5
    /\ targetDateStr = now + 3

====
